---------------------------- MODULE Spec2Model ----------------------------
(***************************************************************************)
(* Model of the backup orchestration of src/hooks/BackupService.js: the    *)
(* singleton BackupService, its device registration, and one run of        *)
(* performFullBackup with its count, session, contact and media phases.    *)
(* The server, the device accessors and local persistence are the          *)
(* environment: each call to them draws its outcome nondeterministically.  *)
(***************************************************************************)
EXTENDS Integers, Sequences, FiniteSets, TLC

(* ------------------------------ bounds --------------------------------- *)
MaxContacts == 2     \* largest contact set a read returns: 1..n, n <= MaxContacts
MaxCount == 1        \* the nonzero total a count call reports
MaxAssets == 2       \* largest single-batch enumeration explored
MaxMediaAssets == 11 \* largest enumeration explored by SpecMedia (two batches)
ExampleAssets == 25  \* the three-batch enumeration SpecMedia explores besides

(* --------------------------- program constants ------------------------- *)
BATCH_SIZE == 10

NoToken == "null"            \* deviceToken = null
NewToken == "tok"            \* data.deviceToken of a successful registration
NoSession == "null"
NewSession == "s1"           \* data.sessionId of a successful start
NoError == "none"

HttpOutcomes == {"ok", "rejected", "throws"}   \* response.ok, !response.ok, fetch rejects
StoreOutcomes == {"ok", "throws"}              \* AsyncStorage call resolves / rejects
AccessOutcomes == {"ok", "denied", "threw"}    \* granted and read / not granted / accessor rejects
Categories == {"contacts", "photos", "videos"}
ContactSets == {1..n : n \in 0..MaxContacts}
CountValues == {0, MaxCount}
\* the two users of the singleton: loadLocalStats of the dashboard and a
\* performFullBackup run
Callers == {"dashboard", "backup"}

VARIABLES
  persisted,      \* AsyncStorage item 'deviceToken'
  deviceToken,    \* this.deviceToken
  isInitialized,  \* this.isInitialized
  writes,         \* history: calls of AsyncStorage.setItem('deviceToken', ...)
  callers,        \* the initialize() calls of the dashboard and of a run, step by step
  pc,             \* position of the performFullBackup run
  countDone,      \* count calls of Promise.all that have settled
  countResult,    \* value each count call resolved with
  countOutcome,   \* what the accessor did in each count call still awaited by Promise.all
  countRaised,    \* a count call rejected
  stats,          \* stats of performFullBackup
  sessionId,      \* sessionId of the run
  error,          \* error caught by the handler being run
  thrown,         \* error performFullBackup rejected with
  reqs,           \* requests sent (except backup/media), with their outcome
  statusLog,      \* arguments of onStatusUpdate, in order
  progressLog,    \* arguments of onProgress, in order
  enumerated,     \* categories whose items a backup phase has read
  mtype,          \* category of the running backupMedia call
  allAssets,      \* allAssets.length of the running backupMedia call
  idx,            \* loop variable i of backupMedia
  pending,        \* uploads of the batch awaiting getAssetInfoAsync
  inflight,       \* uploads of the batch whose backup/media request is in flight
  batchOk,        \* uploads of the batch that resolved true
  processed,      \* processed of backupMedia
  mediaSent,      \* backup/media requests sent, per category
  mediaNoTok,     \* of those, requests whose X-Device-Token was null
  itemsOk,        \* history: uploads the server accepted, per category
  itemsFailed,    \* history: uploads that failed, per category
  events,         \* history: batches, progress updates and pauses of the running backupMedia call
  raised,         \* history: the step of the run that raised, and its error
  denied,         \* history: backup phases whose permission request was not granted
  contactsRead    \* history: the contact set the contact phase read

svc == <<persisted, deviceToken, isInitialized, writes>>
cnt == <<countDone, countResult, countOutcome, countRaised>>
hist == <<raised, denied, contactsRead>>
media == <<mtype, allAssets, idx, pending, inflight, batchOk, processed, mediaSent, mediaNoTok,
           itemsOk, itemsFailed, events>>
vars == <<persisted, deviceToken, isInitialized, writes, callers, pc, countDone, countResult,
          countOutcome, countRaised, stats, sessionId, error, thrown, reqs,
          statusLog, progressLog, enumerated, mtype, allAssets, idx, pending,
          inflight, batchOk, processed, mediaSent, mediaNoTok, itemsOk,
          itemsFailed, events, raised, denied, contactsRead>>

(* ------------------------------ helpers -------------------------------- *)
\* getHeaders(): the X-Device-Token header is the token held at the call
getHeaders(tok) == tok

\* one logged request: who sent it, endpoint, token header, body, response
Req(op, kind, tok, sid, status, err, contacts, outcome) ==
  [op |-> op, kind |-> kind, token |-> tok, sessionId |-> sid, status |-> status,
   error |-> err, contacts |-> contacts, outcome |-> outcome]

\* registerDevice(): post the identity, keep and persist the returned token;
\* every failure is rethrown
registerDevice(op, tok, store, regOutcome, setItem) ==
  LET req == Req(op, "device/register", getHeaders(tok), NoSession, "none", NoError, {}, regOutcome) IN
  IF regOutcome # "ok"
    THEN [raised |-> TRUE, deviceToken |-> tok, persisted |-> store, sent |-> <<req>>,
          wrote |-> 0]
  ELSE IF setItem # "ok"
    THEN [raised |-> TRUE, deviceToken |-> NewToken, persisted |-> store, sent |-> <<req>>,
          wrote |-> 1]
  ELSE [raised |-> FALSE, deviceToken |-> NewToken, persisted |-> NewToken, sent |-> <<req>>,
        wrote |-> 1]

\* initialize(): load the persisted token, register when there is none;
\* the catch block logs any error and returns false
initialize(op, tok, init, store, getItem, regOutcome, setItem) ==
  IF getItem # "ok"
    THEN [raised |-> FALSE, returned |-> FALSE, deviceToken |-> tok,
          isInitialized |-> init, persisted |-> store, sent |-> <<>>, wrote |-> 0]
  ELSE IF store # NoToken
    THEN [raised |-> FALSE, returned |-> TRUE, deviceToken |-> store,
          isInitialized |-> TRUE, persisted |-> store, sent |-> <<>>, wrote |-> 0]
  ELSE LET r == registerDevice(op, store, store, regOutcome, setItem) IN
    IF r.raised
      THEN [raised |-> FALSE, returned |-> FALSE, deviceToken |-> r.deviceToken,
            isInitialized |-> init, persisted |-> r.persisted, sent |-> r.sent,
            wrote |-> r.wrote]
      ELSE [raised |-> FALSE, returned |-> TRUE, deviceToken |-> r.deviceToken,
            isInitialized |-> TRUE, persisted |-> r.persisted, sent |-> r.sent,
            wrote |-> r.wrote]

\* the guard 'if (!this.isInitialized) await this.initialize()'
ensureInitialized(op, tok, init, store, getItem, regOutcome, setItem) ==
  IF init
    THEN [raised |-> FALSE, returned |-> TRUE, deviceToken |-> tok,
          isInitialized |-> init, persisted |-> store, sent |-> <<>>, wrote |-> 0]
    ELSE initialize(op, tok, init, store, getItem, regOutcome, setItem)

\* getLocalContactsCount(): 0 when not granted or when anything throws
getLocalContactsCount(o, n) ==
  [raised |-> FALSE, value |-> IF o = "ok" THEN n ELSE 0]

\* mutant of getLocalMediaCount: the denial or the accessor's error escapes
getLocalMediaCountRaises(o, n) ==
  [raised |-> o # "ok", value |-> IF o = "ok" THEN n ELSE 0]

\* getLocalMediaCount(type): 0 when not granted or when anything throws
getLocalMediaCount(o, n) ==
  [raised |-> FALSE, value |-> IF o = "ok" THEN n ELSE 0]

(* ------------------------------- Init ---------------------------------- *)
Init ==
  /\ persisted \in {NoToken, NewToken}
  /\ deviceToken = NoToken
  /\ isInitialized = FALSE
  /\ writes = 0
  /\ callers = [c \in Callers |-> [pc |-> "idle", resp |-> "none"]]
  /\ pc = "idle"
  /\ countDone = {}
  /\ countResult = [c \in Categories |-> 0]
  /\ countOutcome = [c \in Categories |-> "none"]
  /\ countRaised = FALSE
  /\ stats = [totalContacts |-> 0, totalPhotos |-> 0, totalVideos |-> 0]
  /\ sessionId = NoSession
  /\ error = NoError
  /\ thrown = NoError
  /\ reqs = <<>>
  /\ statusLog = <<>>
  /\ progressLog = <<>>
  /\ enumerated = {}
  /\ mtype = "none"
  /\ allAssets = 0
  /\ idx = 0
  /\ pending = 0
  /\ inflight = 0
  /\ batchOk = 0
  /\ processed = 0
  /\ mediaSent = [c \in {"photos", "videos"} |-> 0]
  /\ mediaNoTok = [c \in {"photos", "videos"} |-> 0]
  /\ itemsOk = [c \in {"photos", "videos"} |-> 0]
  /\ itemsFailed = [c \in {"photos", "videos"} |-> 0]
  /\ events = <<>>
  /\ raised = [phase |-> "none", error |-> NoError]
  /\ denied = {}
  /\ contactsRead = {}

(* --------------------------- performFullBackup ------------------------- *)
\* entry: onStatusUpdate('Initializing backup...')
PFB_Begin ==
  /\ pc = "idle"
  /\ statusLog' = Append(statusLog, "Initializing")
  /\ pc' = "init"
  /\ UNCHANGED <<callers, svc, cnt, stats, sessionId, error, thrown, reqs, progressLog,
                 enumerated, media, hist>>

\* 'if (!this.isInitialized) await this.initialize()' inside the outer try
PFB_Initialize ==
  /\ pc = "init"
  /\ \E getItem \in StoreOutcomes, regOutcome \in HttpOutcomes, setItem \in StoreOutcomes :
       LET r == ensureInitialized("performFullBackup", deviceToken, isInitialized,
                                  persisted, getItem, regOutcome, setItem) IN
       /\ deviceToken' = r.deviceToken
       /\ isInitialized' = r.isInitialized
       /\ persisted' = r.persisted
       /\ writes' = writes + r.wrote
       /\ reqs' = reqs \o r.sent
       /\ IF r.raised
            THEN /\ error' = "RegistrationError"
                 /\ raised' = [phase |-> "init", error |-> "RegistrationError"]
                 /\ pc' = "outer_catch"
            ELSE /\ error' = error
                 /\ raised' = raised
                 /\ pc' = "count"
  /\ UNCHANGED <<callers, cnt, stats, sessionId, thrown, statusLog, progressLog,
                 enumerated, media, denied, contactsRead>>

\* one of the three calls under Promise.all settles
PFB_Count(c) ==
  /\ pc = "count"
  /\ c \notin countDone
  /\ \E o \in AccessOutcomes, n \in CountValues :
       LET r == IF c = "contacts" THEN getLocalContactsCount(o, n)
                                  ELSE getLocalMediaCount(o, n) IN
       /\ countOutcome' = [countOutcome EXCEPT ![c] = o]
       /\ countResult' = [countResult EXCEPT ![c] = r.value]
       /\ countRaised' = (countRaised \/ r.raised)
  /\ countDone' = countDone \cup {c}
  /\ UNCHANGED <<callers, svc, pc, stats, sessionId, error, thrown, reqs, statusLog,
                 progressLog, enumerated, media, hist>>

\* Promise.all settles: build stats and announce the session start, or reject
PFB_CountJoin ==
  /\ pc = "count"
  /\ countDone = Categories \/ countRaised
  /\ IF countRaised
       THEN /\ error' = "CountError"
            /\ raised' = [phase |-> "count", error |-> "CountError"]
            /\ pc' = "outer_catch"
            /\ UNCHANGED <<stats, statusLog>>
       ELSE /\ stats' = [totalContacts |-> countResult["contacts"],
                         totalPhotos |-> countResult["photos"],
                         totalVideos |-> countResult["videos"]]
            /\ statusLog' = Append(statusLog, "StartingSession")
            /\ pc' = "start"
            /\ error' = error
            /\ raised' = raised
  /\ countDone' = {}
  /\ countOutcome' = [c \in Categories |-> "none"]
  /\ countResult' = [c \in Categories |-> 0]
  /\ countRaised' = FALSE
  /\ UNCHANGED <<callers, svc, sessionId, thrown, reqs, progressLog, enumerated,
                 media, denied, contactsRead>>

\* mutant of startBackupSession: the status of the response is not checked
startBackupSessionUnchecked(tok, init, store, getItem, regOutcome, setItem, http) ==
  LET r == ensureInitialized("performFullBackup", tok, init, store, getItem, regOutcome, setItem)
      req == Req("performFullBackup", "backup/start", getHeaders(r.deviceToken),
                 NoSession, "none", NoError, {}, http) IN
  IF r.raised
    THEN [svc |-> r, raised |-> TRUE, error |-> "RegistrationError",
          sent |-> r.sent, sessionId |-> NoSession]
  ELSE IF http = "throws"
    THEN [svc |-> r, raised |-> TRUE, error |-> "NetworkError",
          sent |-> r.sent \o <<req>>, sessionId |-> NoSession]
  ELSE [svc |-> r, raised |-> FALSE, error |-> NoError,
        sent |-> r.sent \o <<req>>,
        sessionId |-> IF http = "ok" THEN NewSession ELSE NoSession]

\* startBackupSession(stats): ensure initialized, POST backup/start
startBackupSession(tok, init, store, getItem, regOutcome, setItem, http) ==
  LET r == ensureInitialized("performFullBackup", tok, init, store, getItem, regOutcome, setItem)
      req == Req("performFullBackup", "backup/start", getHeaders(r.deviceToken),
                 NoSession, "none", NoError, {}, http) IN
  IF r.raised
    THEN [svc |-> r, raised |-> TRUE, error |-> "RegistrationError",
          sent |-> r.sent, sessionId |-> NoSession]
  ELSE IF http = "throws"
    THEN [svc |-> r, raised |-> TRUE, error |-> "NetworkError",
          sent |-> r.sent \o <<req>>, sessionId |-> NoSession]
  ELSE IF http = "rejected"
    THEN [svc |-> r, raised |-> TRUE, error |-> "SessionError",
          sent |-> r.sent \o <<req>>, sessionId |-> NoSession]
  ELSE [svc |-> r, raised |-> FALSE, error |-> NoError,
        sent |-> r.sent \o <<req>>, sessionId |-> NewSession]

\* 'const sessionId = await this.startBackupSession(stats)', then the first
\* status of the inner try
PFB_StartSession ==
  /\ pc = "start"
  /\ \E getItem \in StoreOutcomes, regOutcome \in HttpOutcomes,
        setItem \in StoreOutcomes, http \in HttpOutcomes :
       LET s == startBackupSession(deviceToken, isInitialized, persisted,
                                   getItem, regOutcome, setItem, http) IN
       /\ deviceToken' = s.svc.deviceToken
       /\ isInitialized' = s.svc.isInitialized
       /\ persisted' = s.svc.persisted
       /\ writes' = writes + s.svc.wrote
       /\ reqs' = reqs \o s.sent
       /\ IF s.raised
            THEN /\ error' = s.error
                 /\ raised' = [phase |-> "start", error |-> s.error]
                 /\ pc' = "outer_catch"
                 /\ UNCHANGED <<sessionId, statusLog>>
            ELSE /\ sessionId' = s.sessionId
                 /\ statusLog' = Append(statusLog, "BackingUpContacts")
                 /\ pc' = "contacts"
                 /\ error' = error
                 /\ raised' = raised
  /\ UNCHANGED <<callers, cnt, stats, thrown, progressLog, enumerated, media, denied,
                 contactsRead>>

\* mutant of backupContacts: the permission status is not checked
backupContactsUngated(tok, sid, access, data, http) ==
  LET req == Req("performFullBackup", "backup/contacts", getHeaders(tok), sid,
                 "none", NoError, data, http) IN
  IF access = "threw"
    THEN [raised |-> TRUE, error |-> "AccessorError", read |-> TRUE,
          sent |-> <<>>, progress |-> <<>>]
  ELSE IF http = "throws"
    THEN [raised |-> TRUE, error |-> "NetworkError", read |-> TRUE,
          sent |-> <<req>>, progress |-> <<>>]
  ELSE IF http = "rejected"
    THEN [raised |-> TRUE, error |-> "UploadError", read |-> TRUE,
          sent |-> <<req>>, progress |-> <<>>]
  ELSE [raised |-> FALSE, error |-> NoError, read |-> TRUE,
        sent |-> <<req>>, progress |-> <<[type |-> "contacts", processed |-> Cardinality(data)]>>]

\* mutant of backupContacts: an empty contact set returns before the request
backupContactsSkipEmpty(tok, sid, access, data, http) ==
  LET req == Req("performFullBackup", "backup/contacts", getHeaders(tok), sid,
                 "none", NoError, data, http) IN
  IF access = "denied"
    THEN [raised |-> TRUE, error |-> "PermissionError", read |-> FALSE,
          sent |-> <<>>, progress |-> <<>>]
  ELSE IF access = "threw"
    THEN [raised |-> TRUE, error |-> "AccessorError", read |-> TRUE,
          sent |-> <<>>, progress |-> <<>>]
  ELSE IF data = {}
    THEN [raised |-> FALSE, error |-> NoError, read |-> TRUE,
          sent |-> <<>>, progress |-> <<>>]
  ELSE IF http = "throws"
    THEN [raised |-> TRUE, error |-> "NetworkError", read |-> TRUE,
          sent |-> <<req>>, progress |-> <<>>]
  ELSE IF http = "rejected"
    THEN [raised |-> TRUE, error |-> "UploadError", read |-> TRUE,
          sent |-> <<req>>, progress |-> <<>>]
  ELSE [raised |-> FALSE, error |-> NoError, read |-> TRUE,
        sent |-> <<req>>, progress |-> <<[type |-> "contacts", processed |-> Cardinality(data)]>>]

\* mutant of backupContacts: the status of the response is not checked
backupContactsUnchecked(tok, sid, access, data, http) ==
  LET req == Req("performFullBackup", "backup/contacts", getHeaders(tok), sid,
                 "none", NoError, data, http) IN
  IF access = "denied"
    THEN [raised |-> TRUE, error |-> "PermissionError", read |-> FALSE,
          sent |-> <<>>, progress |-> <<>>]
  ELSE IF access = "threw"
    THEN [raised |-> TRUE, error |-> "AccessorError", read |-> TRUE,
          sent |-> <<>>, progress |-> <<>>]
  ELSE IF http = "throws"
    THEN [raised |-> TRUE, error |-> "NetworkError", read |-> TRUE,
          sent |-> <<req>>, progress |-> <<>>]
  ELSE [raised |-> FALSE, error |-> NoError, read |-> TRUE,
        sent |-> <<req>>, progress |-> <<[type |-> "contacts", processed |-> Cardinality(data)]>>]

\* backupContacts(sessionId, onProgress): permission, one read of the whole
\* contact set, one POST backup/contacts, one progress call
backupContacts(tok, sid, access, data, http) ==
  LET req == Req("performFullBackup", "backup/contacts", getHeaders(tok), sid,
                 "none", NoError, data, http) IN
  IF access = "denied"
    THEN [raised |-> TRUE, error |-> "PermissionError", read |-> FALSE,
          sent |-> <<>>, progress |-> <<>>]
  ELSE IF access = "threw"
    THEN [raised |-> TRUE, error |-> "AccessorError", read |-> TRUE,
          sent |-> <<>>, progress |-> <<>>]
  ELSE IF http = "throws"
    THEN [raised |-> TRUE, error |-> "NetworkError", read |-> TRUE,
          sent |-> <<req>>, progress |-> <<>>]
  ELSE IF http = "rejected"
    THEN [raised |-> TRUE, error |-> "UploadError", read |-> TRUE,
          sent |-> <<req>>, progress |-> <<>>]
  ELSE [raised |-> FALSE, error |-> NoError, read |-> TRUE,
        sent |-> <<req>>, progress |-> <<[type |-> "contacts", processed |-> Cardinality(data)]>>]

\* mutant of runsPhase: the media phases run whatever the declared total
runsPhaseAlways(total) == TRUE

\* the guards 'if (stats.totalPhotos > 0)' and 'if (stats.totalVideos > 0)'
runsPhase(total) == total > 0

\* where performFullBackup goes after a phase returned, and the status it
\* emits on the way
afterPhase(p, st) ==
  IF p = "contacts" /\ runsPhase(st.totalPhotos)
    THEN [pc |-> "photos", status |-> <<"BackingUpPhotos">>]
  ELSE IF p \in {"contacts", "photos"} /\ runsPhase(st.totalVideos)
    THEN [pc |-> "videos", status |-> <<"BackingUpVideos">>]
  ELSE [pc |-> "complete", status |-> <<"Completing">>]

\* the progress callbacks performFullBackup hands to the phases
contactsProgress(pr, st) ==
  [k \in 1..Len(pr) |-> [type |-> pr[k].type, processed |-> pr[k].processed,
                          total |-> st.totalContacts]]
\* mutant of mediaProgress: the total follows the processed count
mediaProgressNoTotal(type, done, total) ==
  [type |-> type, processed |-> done, total |-> done]

\* onProgress(type, processed, allAssets.length) as performFullBackup receives it
mediaProgress(type, done, total) ==
  [type |-> type, processed |-> done, total |-> total]

PFB_Contacts ==
  /\ pc = "contacts"
  /\ \E access \in AccessOutcomes, data \in ContactSets, http \in HttpOutcomes :
       LET r == backupContacts(deviceToken, sessionId, access, data, http)
           nx == afterPhase("contacts", stats) IN
       /\ reqs' = reqs \o r.sent
       /\ enumerated' = IF r.read THEN enumerated \cup {"contacts"} ELSE enumerated
       /\ progressLog' = progressLog \o contactsProgress(r.progress, stats)
       /\ denied' = IF access = "denied" THEN denied \cup {"contacts"} ELSE denied
       /\ contactsRead' = IF access = "ok" THEN data ELSE contactsRead
       /\ IF r.raised
            THEN /\ error' = r.error
                 /\ raised' = [phase |-> "contacts", error |-> r.error]
                 /\ pc' = "inner_catch"
                 /\ UNCHANGED statusLog
            ELSE /\ error' = error
                 /\ raised' = raised
                 /\ pc' = nx.pc
                 /\ statusLog' = statusLog \o nx.status
  /\ UNCHANGED <<callers, svc, cnt, stats, sessionId, thrown, media>>

\* batch = allAssets.slice(i, i + BATCH_SIZE)
batchSize(n, i) == IF n - i < BATCH_SIZE THEN n - i ELSE BATCH_SIZE

\* mutant of backupMediaBegin: the empty enumeration returns without a
\* progress call
backupMediaBeginSilent(type, access, n) ==
  IF access = "denied"
    THEN [raised |-> TRUE, error |-> "PermissionError", read |-> FALSE,
          returned |-> FALSE, progress |-> <<>>]
  ELSE IF access = "threw"
    THEN [raised |-> TRUE, error |-> "AccessorError", read |-> TRUE,
          returned |-> FALSE, progress |-> <<>>]
  ELSE IF n = 0
    THEN [raised |-> FALSE, error |-> NoError, read |-> TRUE,
          returned |-> TRUE, progress |-> <<>>]
  ELSE [raised |-> FALSE, error |-> NoError, read |-> TRUE,
        returned |-> FALSE, progress |-> <<>>]

\* backupMedia(sessionId, type, onProgress) up to the first batch:
\* permission, enumeration of the category, the empty case
backupMediaBegin(type, access, n) ==
  IF access = "denied"
    THEN [raised |-> TRUE, error |-> "PermissionError", read |-> FALSE,
          returned |-> FALSE, progress |-> <<>>]
  ELSE IF access = "threw"
    THEN [raised |-> TRUE, error |-> "AccessorError", read |-> TRUE,
          returned |-> FALSE, progress |-> <<>>]
  ELSE IF n = 0
    THEN [raised |-> FALSE, error |-> NoError, read |-> TRUE,
          returned |-> TRUE, progress |-> <<mediaProgress(type, 0, 0)>>]
  ELSE [raised |-> FALSE, error |-> NoError, read |-> TRUE,
        returned |-> FALSE, progress |-> <<>>]

\* one entry of the history of a backupMedia call: a batch mapped at index i,
\* a progress update after 'done' accepted uploads, the start of a pause
BatchEvent(i, n) == [ev |-> "batch", at |-> i, n |-> batchSize(n, i)]
ProgressEvent(done, total) == [ev |-> "progress", at |-> done, n |-> total]
PauseEvent == [ev |-> "pause", at |-> 0, n |-> 0]

PFB_MediaBegin(sizes) ==
  /\ pc \in {"photos", "videos"}
  /\ \E access \in AccessOutcomes, n \in sizes :
       LET r == backupMediaBegin(pc, access, n)
           nx == afterPhase(pc, stats) IN
       /\ enumerated' = IF r.read THEN enumerated \cup {pc} ELSE enumerated
       /\ denied' = IF access = "denied" THEN denied \cup {pc} ELSE denied
       /\ progressLog' = progressLog \o r.progress
       /\ IF r.raised
            THEN /\ error' = r.error
                 /\ raised' = [phase |-> pc, error |-> r.error]
                 /\ pc' = "inner_catch"
                 /\ UNCHANGED <<statusLog, mtype, allAssets, idx, pending, processed, events>>
          ELSE IF r.returned
            THEN /\ pc' = nx.pc
                 /\ statusLog' = statusLog \o nx.status
                 /\ mtype' = pc
                 /\ allAssets' = n
                 /\ idx' = 0
                 /\ processed' = 0
                 /\ events' = <<>>
                 /\ UNCHANGED <<error, raised, pending>>
          ELSE   /\ mtype' = pc
                 /\ allAssets' = n
                 /\ idx' = 0
                 /\ processed' = 0
                 /\ pending' = batchSize(n, 0)
                 /\ events' = <<BatchEvent(0, n)>>
                 /\ pc' = "batch"
                 /\ UNCHANGED <<error, raised, statusLog>>
  /\ UNCHANGED <<callers, svc, cnt, stats, sessionId, thrown, reqs, inflight, batchOk,
                 mediaSent, mediaNoTok, itemsOk, itemsFailed, contactsRead>>

\* mutant of batchItem: the failure of one upload rejects the batch
batchItemPropagates(outcome) == [raised |-> outcome # "ok", value |-> outcome = "ok"]

\* one member of batchPromises: the upload's result, false when it threw
batchItem(outcome) == [raised |-> FALSE, value |-> outcome = "ok"]

\* uploadSingleMediaFile up to its fetch: getAssetInfoAsync resolves and the
\* backup/media request is sent, or it rejects and the item counts as failed
PFB_UploadSend ==
  /\ pc = "batch"
  /\ pending > 0
  /\ pending' = pending - 1
  /\ \E info \in {"ok", "threw"} :
       IF info = "ok"
         THEN /\ inflight' = inflight + 1
              /\ mediaSent' = [mediaSent EXCEPT ![mtype] = @ + 1]
              /\ mediaNoTok' = IF getHeaders(deviceToken) = NoToken
                                 THEN [mediaNoTok EXCEPT ![mtype] = @ + 1]
                                 ELSE mediaNoTok
              /\ UNCHANGED <<itemsFailed, error, raised, pc>>
         ELSE /\ itemsFailed' = [itemsFailed EXCEPT ![mtype] = @ + 1]
              /\ IF batchItem(info).raised
                   THEN /\ error' = "AccessorError"
                        /\ raised' = [phase |-> mtype, error |-> "AccessorError"]
                        /\ pc' = "inner_catch"
                   ELSE UNCHANGED <<error, raised, pc>>
              /\ UNCHANGED <<inflight, mediaSent, mediaNoTok>>
  /\ UNCHANGED <<callers, svc, cnt, stats, sessionId, thrown, reqs, statusLog,
                 progressLog, enumerated, mtype, allAssets, idx, batchOk,
                 processed, itemsOk, events, denied, contactsRead>>

\* the response of one backup/media request: true on response.ok, otherwise
\* the error is caught by the batch and the item resolves false
PFB_UploadSettle ==
  /\ pc = "batch"
  /\ inflight > 0
  /\ inflight' = inflight - 1
  /\ \E http \in HttpOutcomes :
       LET r == batchItem(http) IN
       /\ batchOk' = IF r.value THEN batchOk + 1 ELSE batchOk
       /\ itemsOk' = IF http = "ok" THEN [itemsOk EXCEPT ![mtype] = @ + 1] ELSE itemsOk
       /\ itemsFailed' = IF http = "ok" THEN itemsFailed
                         ELSE [itemsFailed EXCEPT ![mtype] = @ + 1]
       /\ IF r.raised
            THEN /\ error' = "UploadError"
                 /\ raised' = [phase |-> mtype, error |-> "UploadError"]
                 /\ pc' = "inner_catch"
            ELSE UNCHANGED <<error, raised, pc>>
  /\ UNCHANGED <<callers, svc, cnt, stats, sessionId, thrown, reqs, statusLog,
                 progressLog, enumerated, mtype, allAssets, idx, pending,
                 processed, mediaSent, mediaNoTok, events, denied, contactsRead>>

\* mutant of allSettled: the batch is taken as settled once every request is sent
allSettledOnSend(p, f) == p = 0

\* 'await Promise.all(batchPromises)': every member of the batch has resolved
allSettled(p, f) == p = 0 /\ f = 0

\* mutant of pausesAfter: the pause also follows the last batch
pausesAfterEvery(i, n) == TRUE

\* 'if (i + BATCH_SIZE < allAssets.length)' around the 100 ms pause
pausesAfter(i, n) == i + BATCH_SIZE < n

\* mutant of nextIndex: the loop advances by one asset
nextIndexByOne(i) == i + 1

\* 'i += BATCH_SIZE' of the batch loop
nextIndex(i) == i + BATCH_SIZE

\* the end of one iteration of the batch loop, after the events ev:
\* i += BATCH_SIZE, then the next batch is mapped or backupMedia returns true
LoopStep(ev) ==
  LET i2 == nextIndex(idx) IN
  /\ idx' = i2
  /\ IF i2 < allAssets
       THEN /\ pending' = batchSize(allAssets, i2)
            /\ events' = Append(ev, BatchEvent(i2, allAssets))
            /\ pc' = "batch"
            /\ UNCHANGED statusLog
       ELSE LET nx == afterPhase(mtype, stats) IN
            /\ pending' = pending
            /\ events' = ev
            /\ pc' = nx.pc
            /\ statusLog' = statusLog \o nx.status

\* Promise.all(batchPromises) settles: count the successes, report progress,
\* then start the pause or go on with the loop
PFB_BatchSettle ==
  /\ pc = "batch"
  /\ allSettled(pending, inflight)
  /\ processed' = processed + batchOk
  /\ batchOk' = 0
  /\ progressLog' = Append(progressLog, mediaProgress(mtype, processed + batchOk, allAssets))
  /\ LET ev == Append(events, ProgressEvent(itemsOk[mtype], allAssets)) IN
     IF pausesAfter(idx, allAssets)
       THEN /\ pc' = "pause"
            /\ events' = Append(ev, PauseEvent)
            /\ UNCHANGED <<statusLog, idx, pending>>
       ELSE LoopStep(ev)
  /\ UNCHANGED <<callers, svc, cnt, stats, sessionId, error, thrown, reqs, enumerated,
                 mtype, allAssets, inflight, mediaSent, mediaNoTok, itemsOk,
                 itemsFailed, hist>>

\* the 100 ms timer fires and the loop goes on
PFB_Pause ==
  /\ pc = "pause"
  /\ LoopStep(events)
  /\ UNCHANGED <<callers, svc, cnt, stats, sessionId, error, thrown, reqs,
                 progressLog, enumerated, mtype, allAssets, inflight, batchOk,
                 processed, mediaSent, mediaNoTok, itemsOk, itemsFailed, hist>>

\* 'await this.completeBackupSession(sessionId)': the class defines no
\* member of that name, so the call raises a TypeError inside the inner try
PFB_Complete ==
  /\ pc = "complete"
  /\ error' = "TypeError"
  /\ raised' = [phase |-> "complete", error |-> "TypeError"]
  /\ pc' = "inner_catch"
  /\ UNCHANGED <<callers, svc, cnt, stats, sessionId, thrown, reqs, statusLog,
                 progressLog, enumerated, media, denied, contactsRead>>

\* mutant of markSessionFailed: the inner catch rethrows without the request
markSessionFailedSkipped(tok, sid, err, http) == <<>>

\* the inner catch: one POST backup/complete with status 'failed' whose own
\* failure is only logged
markSessionFailed(tok, sid, err, http) ==
  <<Req("performFullBackup", "backup/complete", getHeaders(tok), sid, "failed", err, {}, http)>>

\* mutant of rethrow: a failure of the secondary request replaces the error
rethrowSecondary(err, http) == IF http = "throws" THEN "NetworkError" ELSE err

\* 'throw error' of the inner catch
rethrow(err, http) == err

\* mutant of failedStatus: the failure status is emitted by both catch blocks
failedStatusTwice(err) == <<"Failed", "Failed">>

\* the outer catch: onStatusUpdate('Backup failed: ...') and rethrow
failedStatus(err) == <<"Failed">>

\* an error raised before the inner try reaches the outer catch directly
PFB_OuterCatch ==
  /\ pc = "outer_catch"
  /\ statusLog' = statusLog \o failedStatus(error)
  /\ thrown' = error
  /\ pc' = "done"
  /\ UNCHANGED <<callers, svc, cnt, stats, sessionId, error, reqs, progressLog,
                 enumerated, media, hist>>

\* the secondary request of the inner catch settles; the rethrown error
\* passes through the outer catch in the same turn
PFB_InnerCatch ==
  /\ pc = "inner_catch"
  /\ \E http \in HttpOutcomes :
       LET e == rethrow(error, http) IN
       /\ reqs' = reqs \o markSessionFailed(deviceToken, sessionId, error, http)
       /\ error' = e
       /\ statusLog' = statusLog \o failedStatus(e)
       /\ thrown' = e
  /\ pc' = "done"
  /\ UNCHANGED <<callers, svc, cnt, stats, sessionId, progressLog, enumerated, media, hist>>

(* ------------------------------ behaviour ------------------------------ *)
\* One run of performFullBackup on a device whose enumerations fit in one
\* batch (MaxAssets < BATCH_SIZE), so the loop of backupMedia never pauses.
Next ==
  \/ PFB_Begin
  \/ PFB_Initialize
  \/ \E c \in Categories : PFB_Count(c)
  \/ PFB_CountJoin
  \/ PFB_StartSession
  \/ PFB_Contacts
  \/ PFB_MediaBegin(0..MaxAssets)
  \/ PFB_UploadSend
  \/ PFB_UploadSettle
  \/ PFB_BatchSettle
  \/ PFB_Complete
  \/ PFB_InnerCatch
  \/ PFB_OuterCatch

Spec == Init /\ [][Next]_vars

\* The photo phase of a run on a device that holds a token, one contact and
\* no video: the state performFullBackup is in when it calls backupMedia
\* for the photos. Enumerations reach into a second batch, and one of
\* ExampleAssets assets into a third.
MediaInit ==
  /\ persisted = NewToken
  /\ deviceToken = NewToken
  /\ isInitialized = TRUE
  /\ writes = 0
  /\ callers = [c \in Callers |-> [pc |-> "idle", resp |-> "none"]]
  /\ pc = "photos"
  /\ countDone = {}
  /\ countResult = [c \in Categories |-> 0]
  /\ countOutcome = [c \in Categories |-> "none"]
  /\ countRaised = FALSE
  /\ stats = [totalContacts |-> 1, totalPhotos |-> 1, totalVideos |-> 0]
  /\ sessionId = NewSession
  /\ error = NoError
  /\ thrown = NoError
  /\ reqs = <<Req("performFullBackup", "backup/start", NewToken, NoSession, "none", NoError, {}, "ok"),
              Req("performFullBackup", "backup/contacts", NewToken, NewSession, "none", NoError, {1}, "ok")>>
  /\ statusLog = <<"Initializing", "StartingSession", "BackingUpContacts", "BackingUpPhotos">>
  /\ progressLog = <<[type |-> "contacts", processed |-> 1, total |-> 1]>>
  /\ enumerated = {"contacts"}
  /\ mtype = "none"
  /\ allAssets = 0
  /\ idx = 0
  /\ pending = 0
  /\ inflight = 0
  /\ batchOk = 0
  /\ processed = 0
  /\ mediaSent = [c \in {"photos", "videos"} |-> 0]
  /\ mediaNoTok = [c \in {"photos", "videos"} |-> 0]
  /\ itemsOk = [c \in {"photos", "videos"} |-> 0]
  /\ itemsFailed = [c \in {"photos", "videos"} |-> 0]
  /\ events = <<>>
  /\ raised = [phase |-> "none", error |-> NoError]
  /\ denied = {}
  /\ contactsRead = {1}

NextMedia ==
  \/ PFB_MediaBegin((0..MaxMediaAssets) \cup {ExampleAssets})
  \/ PFB_UploadSend
  \/ PFB_UploadSettle
  \/ PFB_BatchSettle
  \/ PFB_Pause

SpecMedia == MediaInit /\ [][NextMedia]_vars

\* the photo phase SpecMedia starts from is a state of a full run
MediaInitReached == ~MediaInit


(* ----------------- initialize() under concurrent callers ---------------- *)
\* The singleton is shared by the dashboard, whose loadLocalStats calls
\* initialize() unconditionally, and by performFullBackup, which calls it
\* when isInitialized is false. Each await of initialize() and of
\* registerDevice() is a step, so the two calls interleave at their awaits.
InitializeOp(c) == IF c = "dashboard" THEN "loadLocalStats" ELSE "performFullBackup"
Finished(c, ok) == [callers EXCEPT ![c] = [pc |-> IF ok THEN "done_true" ELSE "done_false",
                                           resp |-> "none"]]

\* the caller reaches initialize(): 'this.deviceToken = await AsyncStorage.getItem(...)'
\* is issued; a run whose guard finds isInitialized set skips the call
Initialize_Call(c) ==
  /\ callers[c].pc = "idle"
  /\ callers' = IF c = "backup" /\ isInitialized
                  THEN Finished(c, TRUE)
                  ELSE [callers EXCEPT ![c].pc = "getItem"]
  /\ UNCHANGED <<svc, pc, cnt, stats, sessionId, error, thrown, reqs, statusLog,
                 progressLog, enumerated, media, hist>>

\* getItem settles: the token read is assigned; with a token the call ends
\* initialized, without one registerDevice() sends device/register
Initialize_GetItem(c) ==
  /\ callers[c].pc = "getItem"
  /\ \E getItem \in StoreOutcomes, regOutcome \in HttpOutcomes :
       IF getItem # "ok"
         THEN /\ callers' = Finished(c, FALSE)
              /\ UNCHANGED <<deviceToken, isInitialized, reqs>>
       ELSE IF persisted # NoToken
         THEN /\ deviceToken' = persisted
              /\ isInitialized' = TRUE
              /\ callers' = Finished(c, TRUE)
              /\ UNCHANGED reqs
       ELSE   /\ deviceToken' = persisted
              /\ reqs' = Append(reqs, Req(InitializeOp(c), "device/register",
                                          getHeaders(persisted), NoSession, "none",
                                          NoError, {}, regOutcome))
              /\ callers' = [callers EXCEPT ![c] = [pc |-> "fetch", resp |-> regOutcome]]
              /\ UNCHANGED isInitialized
  /\ UNCHANGED <<persisted, writes, pc, cnt, stats, sessionId, error, thrown,
                 statusLog, progressLog, enumerated, media, hist>>

\* the answer to device/register: a failure is rethrown and initialize()
\* returns false; on success the token is kept and setItem is called
RegisterDevice_Response(c) ==
  /\ callers[c].pc = "fetch"
  /\ IF callers[c].resp # "ok"
       THEN /\ callers' = Finished(c, FALSE)
            /\ UNCHANGED <<deviceToken, writes>>
       ELSE /\ deviceToken' = NewToken
            /\ writes' = writes + 1
            /\ callers' = [callers EXCEPT ![c] = [pc |-> "setItem", resp |-> "none"]]
  /\ UNCHANGED <<persisted, isInitialized, pc, cnt, stats, sessionId, error,
                 thrown, reqs, statusLog, progressLog, enumerated, media, hist>>

\* setItem settles: the token is persisted and initialize() sets
\* isInitialized, or the rejection makes initialize() return false
RegisterDevice_SetItem(c) ==
  /\ callers[c].pc = "setItem"
  /\ \E setItem \in StoreOutcomes :
       IF setItem = "ok"
         THEN /\ persisted' = NewToken
              /\ isInitialized' = TRUE
              /\ callers' = Finished(c, TRUE)
         ELSE /\ callers' = Finished(c, FALSE)
              /\ UNCHANGED <<persisted, isInitialized>>
  /\ UNCHANGED <<deviceToken, writes, pc, cnt, stats, sessionId, error, thrown,
                 reqs, statusLog, progressLog, enumerated, media, hist>>

NextInit ==
  \/ \E c \in Callers : Initialize_Call(c)
  \/ \E c \in Callers : Initialize_GetItem(c)
  \/ \E c \in Callers : RegisterDevice_Response(c)
  \/ \E c \in Callers : RegisterDevice_SetItem(c)

SpecInit == Init /\ [][NextInit]_vars

TypeOK ==
  /\ pc \in {"idle", "init", "count", "start", "contacts", "photos", "videos",
             "batch", "pause", "complete", "inner_catch", "outer_catch", "done"}
  /\ deviceToken \in {NoToken, NewToken}
  /\ writes \in Nat
  /\ \A c \in Callers :
       callers[c].pc \in {"idle", "getItem", "fetch", "setItem", "done_true", "done_false"}
  /\ pending \in 0..BATCH_SIZE /\ inflight \in 0..BATCH_SIZE /\ batchOk \in 0..BATCH_SIZE
  /\ \A c \in {"photos", "videos"} : itemsOk[c] \in Nat /\ itemsFailed[c] \in Nat
  /\ \A k \in 1..Len(events) : events[k].ev \in {"batch", "progress", "pause"}


(* ------------------------------- claims -------------------------------- *)
Range(q) == {q[k] : k \in 1..Len(q)}
ReqsOf(kind) == {k \in 1..Len(reqs) : reqs[k].kind = kind}
ProgressOf(type) == {k \in 1..Len(progressLog) : progressLog[k].type = type}
BackupPhases == {"contacts", "photos", "videos"}
Last(q) == q[Len(q)]

\* C1 (as stated): every finished run has sent exactly one backup/complete
\* request, "completed" only if everything before it succeeded and otherwise
\* "failed" with the captured error message.
C1_CompletionExactlyOnce ==
  pc = "done" =>
    /\ Cardinality(ReqsOf("backup/complete")) = 1
    /\ \A k \in ReqsOf("backup/complete") :
         /\ reqs[k].status = "completed" => raised.phase = "none"
         /\ raised.phase # "none" => reqs[k].status = "failed" /\ reqs[k].error = raised.error

\* C1 (amended): a run never sends more than one backup/complete request; a
\* finished run that opened a session has sent exactly one, a finished run
\* whose session start failed has sent none; the request is "completed" only
\* if no backup phase failed, and when a phase failed it is "failed", names
\* the session and carries the error that phase raised.
C1_CompletionOncePerSession ==
  /\ Cardinality(ReqsOf("backup/complete")) <= 1
  /\ pc = "done" =>
       /\ sessionId = NoSession => ReqsOf("backup/complete") = {}
       /\ sessionId # NoSession => Cardinality(ReqsOf("backup/complete")) = 1
       /\ \A k \in ReqsOf("backup/complete") :
            /\ reqs[k].status = "completed" => raised.phase \notin BackupPhases
            /\ raised.phase \in BackupPhases =>
                 /\ reqs[k].status = "failed"
                 /\ reqs[k].error = raised.error
                 /\ reqs[k].sessionId = sessionId

C1_Witness ==
  /\ pc = "done"
  /\ sessionId = NewSession
  /\ raised = [phase |-> "contacts", error |-> "UploadError"]
  /\ \E k \in ReqsOf("backup/complete") :
       reqs[k].status = "failed" /\ reqs[k].error = "UploadError"

\* C2: a run whose initialization, counts, session start and phases all
\* succeeded, and whose completion call the server accepted, ends without
\* throwing, with a backup/complete request of status "completed" and with
\* 'Backup completed successfully!' as its last status.
C2_SuccessfulRunCompletes ==
  ( /\ pc = "done"
    /\ isInitialized
    /\ "Completing" \in Range(statusLog)
    /\ \A k \in ReqsOf("backup/complete") : reqs[k].outcome = "ok" )
  => /\ thrown = NoError
     /\ \E k \in ReqsOf("backup/complete") : reqs[k].status = "completed"
     /\ Last(statusLog) = "Completed"

\* C3: when the contact, photo or video phase fails, one backup/complete
\* request with status "failed" is sent before the run ends, and the error the
\* caller receives is the one the phase raised, whatever the outcome of that
\* secondary request.
C3_OriginalErrorRethrown ==
  raised.phase \in BackupPhases =>
    /\ pc = "inner_catch" => ReqsOf("backup/complete") = {} /\ thrown = NoError
    /\ pc = "done" =>
         /\ Cardinality(ReqsOf("backup/complete")) = 1
         /\ \A k \in ReqsOf("backup/complete") : reqs[k].status = "failed"
         /\ thrown = raised.error

C3_Witness ==
  /\ pc = "done"
  /\ raised = [phase |-> "photos", error |-> "PermissionError"]
  /\ thrown = "PermissionError"
  /\ \E k \in ReqsOf("backup/complete") : reqs[k].outcome = "throws"

StatusRank(st) ==
  CASE st = "Initializing" -> 1
    [] st = "StartingSession" -> 2
    [] st = "BackingUpContacts" -> 3
    [] st = "BackingUpPhotos" -> 4
    [] st = "BackingUpVideos" -> 5
    [] st = "Completing" -> 6
    [] st \in {"Completed", "Failed"} -> 7

\* C4: the statuses emitted so far are in the order Initializing, Starting
\* session, contacts, photos, videos, Completing, terminal, none of them
\* twice; a terminal status is emitted exactly when the run ends and nothing
\* follows it.
C4_StatusOrder ==
  /\ \A i, j \in 1..Len(statusLog) :
       i < j => StatusRank(statusLog[i]) < StatusRank(statusLog[j])
  /\ pc # "idle" => statusLog[1] = "Initializing"
  /\ pc = "done" => StatusRank(Last(statusLog)) = 7
  /\ pc # "done" => \A i \in 1..Len(statusLog) : StatusRank(statusLog[i]) < 7

C4_Witness ==
  /\ pc = "done"
  /\ statusLog = <<"Initializing", "StartingSession", "BackingUpContacts",
                   "BackingUpPhotos", "BackingUpVideos", "Completing", "Failed">>

\* C5: once a device/register request of the run got a non-successful
\* response, the run does not go on: it sends nothing more and ends with the
\* registration error.
C5_RegistrationErrorStopsRun ==
  \A k \in ReqsOf("device/register") :
    reqs[k].outcome = "rejected" =>
      /\ Len(reqs) = k
      /\ pc \in {"outer_catch", "done"}
      /\ error = "RegistrationError"

\* C6: every request other than device/register carries a device token.
C6_RequestsCarryToken ==
  /\ \A k \in 1..Len(reqs) :
       reqs[k].kind # "device/register" => reqs[k].token # NoToken
  /\ \A c \in {"photos", "videos"} : mediaNoTok[c] = 0

DeclaredTotal(c) == IF c = "photos" THEN stats.totalPhotos ELSE stats.totalVideos
PhaseStatus(c) == IF c = "photos" THEN "BackingUpPhotos" ELSE "BackingUpVideos"

\* C7: a media phase whose declared total is zero never runs: its status is
\* not emitted, its permission is not requested, its assets are not
\* enumerated, no backup/media request of its category is sent and no
\* progress of its type is reported.
C7_ZeroTotalSkipsPhase ==
  \A c \in {"photos", "videos"} :
    DeclaredTotal(c) = 0 =>
      /\ pc # c
      /\ mtype # c
      /\ PhaseStatus(c) \notin Range(statusLog)
      /\ c \notin enumerated
      /\ c \notin denied
      /\ mediaSent[c] = 0
      /\ ProgressOf(c) = {}

C7_Witness ==
  /\ pc = "done"
  /\ stats.totalPhotos = 0
  /\ stats.totalVideos > 0
  /\ mediaSent["videos"] > 0
  /\ mediaSent["photos"] = 0

\* C8: a count call whose permission is denied or whose accessor throws
\* resolves with 0 and does not reject; the count phase is never aborted:
\* every run that leaves it has built its stats and announced the session
\* start.
C8_CountsAbsorbFailures ==
  /\ \A c \in countDone : countOutcome[c] # "ok" => countResult[c] = 0
  /\ ~countRaised
  /\ raised.phase # "count"
  /\ pc \notin {"idle", "init", "count"} =>
       Len(statusLog) >= 2 /\ statusLog[2] = "StartingSession"

C8_Witness ==
  /\ pc = "count"
  /\ countDone = Categories
  /\ countOutcome["contacts"] = "denied"
  /\ countOutcome["videos"] = "threw"
  /\ countOutcome["photos"] = "ok"
  /\ countResult["photos"] > 0

\* C9: a backup phase whose permission request is not granted reads no item
\* and sends no upload request of its category, and fails with the
\* permission error; the run then ends as a failed run with that error.
C9_DenialIsFatal ==
  /\ \A c \in denied :
       /\ c \notin enumerated
       /\ raised = [phase |-> c, error |-> "PermissionError"]
       /\ pc \in {"inner_catch", "done"}
       /\ pc = "done" => thrown = "PermissionError" /\ Last(statusLog) = "Failed"
  /\ "contacts" \in denied => ReqsOf("backup/contacts") = {} /\ ProgressOf("contacts") = {}
  /\ \A c \in denied \ {"contacts"} : mediaSent[c] = 0 /\ ProgressOf(c) = {}

C9_Witness ==
  /\ pc = "done"
  /\ stats.totalContacts = 0
  /\ "contacts" \in denied
  /\ thrown = "PermissionError"

ContactPhaseSucceeded ==
  /\ "BackingUpContacts" \in Range(statusLog)
  /\ pc # "contacts"
  /\ raised.phase # "contacts"

\* C10: no run sends more than one backup/contacts request; after a
\* successful contact phase exactly one has been sent, its body is the
\* contact set the phase read, and exactly one contact progress update has
\* been reported, whose processed is the size of that set (0 for no contact).
C10_OneContactsRequest ==
  /\ Cardinality(ReqsOf("backup/contacts")) <= 1
  /\ ContactPhaseSucceeded =>
       /\ Cardinality(ReqsOf("backup/contacts")) = 1
       /\ \A k \in ReqsOf("backup/contacts") :
            reqs[k].contacts = contactsRead /\ reqs[k].sessionId = sessionId
       /\ Cardinality(ProgressOf("contacts")) = 1
       /\ \A k \in ProgressOf("contacts") :
            progressLog[k].processed = Cardinality(contactsRead)

C10_Witness ==
  /\ ContactPhaseSucceeded
  /\ contactsRead = {}
  /\ \E k \in ReqsOf("backup/contacts") : reqs[k].contacts = {}
  /\ \E k \in ProgressOf("contacts") : progressLog[k].processed = 0

MediaTypes == {"photos", "videos"}
EventsOf(e) == {k \in 1..Len(events) : events[k].ev = e}
BatchesOf(a) == {k \in EventsOf("batch") : events[k].at <= a /\ a < events[k].at + events[k].n}
BackupMediaReturned ==
  /\ mtype \in MediaTypes
  /\ pc = "complete" \/ (pc = "videos" /\ mtype = "photos")
MediaProgressSeq == SelectSeq(progressLog, LAMBDA p : p.type = mtype)
ProgressEventSeq == SelectSeq(events, LAMBDA e : e.ev = "progress")
Ceil(n, b) == (n + b - 1) \div b
Min(a, b) == IF a < b THEN a ELSE b

\* C11: the failure of one upload never fails the media phase: backupMedia
\* raises nothing for it, the count it accumulates is the number of uploads
\* the server accepted, and when it returns every enumerated asset was
\* attempted (the other members of the batch and the later batches ran) and
\* the last progress update reports exactly the accepted uploads.
C11_ItemFailureContained ==
  mtype \in MediaTypes =>
    /\ raised.phase # mtype
    /\ pc = "batch" => processed + batchOk = itemsOk[mtype]
    /\ pc # "batch" => processed = itemsOk[mtype]
    /\ BackupMediaReturned =>
         /\ itemsOk[mtype] + itemsFailed[mtype] = allAssets
         /\ allAssets > 0 =>
              /\ MediaProgressSeq # <<>>
              /\ Last(MediaProgressSeq).processed = itemsOk[mtype]

C11_Witness ==
  /\ BackupMediaReturned
  /\ allAssets = BATCH_SIZE + 1
  /\ itemsFailed[mtype] = 1
  /\ itemsOk[mtype] = BATCH_SIZE
  /\ Len(MediaProgressSeq) = 2
  /\ MediaProgressSeq[1].processed = BATCH_SIZE - 1
  /\ MediaProgressSeq[2].processed = BATCH_SIZE

\* C12: the assets of a media phase are cut into ceil(N / BATCH_SIZE)
\* batches: never more batches than that, every batch holds between 1 and
\* BATCH_SIZE assets of the enumeration, no asset is in two batches, the
\* processed count never exceeds N, and when backupMedia returns there were
\* exactly ceil(N / BATCH_SIZE) batches and every asset was in exactly one.
C12_BatchesPartitionAssets ==
  mtype \in MediaTypes =>
    /\ Cardinality(EventsOf("batch")) <= Ceil(allAssets, BATCH_SIZE)
    /\ \A k \in EventsOf("batch") :
         /\ events[k].n \in 1..BATCH_SIZE
         /\ events[k].at + events[k].n <= allAssets
    /\ \A a \in 0..(allAssets - 1) : Cardinality(BatchesOf(a)) <= 1
    /\ processed <= allAssets
    /\ BackupMediaReturned =>
         /\ Cardinality(EventsOf("batch")) = Ceil(allAssets, BATCH_SIZE)
         /\ \A a \in 0..(allAssets - 1) : Cardinality(BatchesOf(a)) = 1

C12_Witness ==
  /\ BackupMediaReturned
  /\ allAssets = BATCH_SIZE + 1
  /\ Cardinality(EventsOf("batch")) = 2
  /\ \E k \in EventsOf("batch") : events[k].at = BATCH_SIZE /\ events[k].n = 1

\* C13: a media phase over at least one asset reports progress once per
\* batch, directly after that batch settled: the updates are as many as the
\* settled batches, each carries the number of uploads accepted so far and
\* the size of the enumeration as total; when no upload failed the j-th
\* update is (min(j * BATCH_SIZE, N), N), so 25 assets give (10,25), (20,25),
\* (25,25).
C13_ProgressOncePerBatch ==
  (mtype \in MediaTypes /\ allAssets > 0) =>
    /\ Len(MediaProgressSeq) = Len(ProgressEventSeq)
    /\ Len(MediaProgressSeq) = IF pc = "batch"
                                 THEN Cardinality(EventsOf("batch")) - 1
                                 ELSE Cardinality(EventsOf("batch"))
    /\ \A k \in EventsOf("progress") : k > 1 /\ events[k - 1].ev = "batch"
    /\ \A j \in 1..Len(MediaProgressSeq) :
         /\ j <= Len(ProgressEventSeq) =>
              MediaProgressSeq[j].processed = ProgressEventSeq[j].at
         /\ MediaProgressSeq[j].total = allAssets
         /\ itemsFailed[mtype] = 0 =>
              MediaProgressSeq[j].processed = Min(j * BATCH_SIZE, allAssets)

C13_Witness ==
  /\ BackupMediaReturned
  /\ allAssets = ExampleAssets
  /\ itemsFailed[mtype] = 0
  /\ MediaProgressSeq = <<mediaProgress(mtype, BATCH_SIZE, ExampleAssets),
                          mediaProgress(mtype, 2 * BATCH_SIZE, ExampleAssets),
                          mediaProgress(mtype, ExampleAssets, ExampleAssets)>>

\* C14 (as stated): a run in which the session start, the contact phase or a
\* media phase failed ends by raising that failure's error to the caller and
\* has sent a backup/complete request with status "failed".
C14_EveryFailureNotified ==
  (pc = "done" /\ raised.phase \in BackupPhases \cup {"start"}) =>
    /\ thrown = raised.error
    /\ \E k \in ReqsOf("backup/complete") : reqs[k].status = "failed"

\* C14 (amended): every failure of the session start or of a backup phase
\* reaches the caller with its own error; a failed contact or media phase has
\* also sent one backup/complete request with status "failed" carrying that
\* error; a failed session start (rejected or unreachable backup/start) opens
\* no session and sends no backup/complete request at all.
C14_FailurePropagatesNotifiedInSession ==
  pc = "done" =>
    /\ raised.phase \in BackupPhases \cup {"start"} => thrown = raised.error
    /\ raised.phase \in BackupPhases =>
         \E k \in ReqsOf("backup/complete") :
           reqs[k].status = "failed" /\ reqs[k].error = raised.error
    /\ raised.phase = "start" =>
         sessionId = NoSession /\ ReqsOf("backup/complete") = {}
    /\ \A k \in ReqsOf("backup/start") :
         /\ reqs[k].outcome = "rejected" =>
              raised.phase = "start" /\ thrown = "SessionError"
         /\ reqs[k].outcome = "throws" =>
              raised.phase = "start" /\ thrown = "NetworkError"

C14_Witness ==
  /\ pc = "done"
  /\ raised = [phase |-> "start", error |-> "SessionError"]
  /\ thrown = "SessionError"
  /\ \E k \in ReqsOf("backup/start") : reqs[k].outcome = "rejected"
  /\ ReqsOf("backup/complete") = {}

\* C15: nothing is retried within one run: at most one device/register, one
\* backup/start, one backup/contacts and one backup/complete request are
\* sent, and at most one backup/media request per enumerated asset.
C15_NoRetry ==
  /\ Cardinality(ReqsOf("device/register")) <= 1
  /\ Cardinality(ReqsOf("backup/start")) <= 1
  /\ Cardinality(ReqsOf("backup/contacts")) <= 1
  /\ Cardinality(ReqsOf("backup/complete")) <= 1
  /\ mtype \in MediaTypes => mediaSent[mtype] <= allAssets

SettledItems == itemsOk[mtype] + itemsFailed[mtype]

\* C16: batches never overlap: while a batch is running every asset of the
\* earlier batches has settled and the uploads still unsent or in flight are
\* the unsettled ones of the current batch, so at most BATCH_SIZE backup/media
\* requests are in flight; during a pause nothing is in flight.
C16_OneBatchAtATime ==
  mtype \in MediaTypes =>
    /\ inflight <= BATCH_SIZE
    /\ pc = "batch" =>
         /\ SettledItems >= idx
         /\ SettledItems + inflight + pending = idx + batchSize(allAssets, idx)
    /\ pc = "pause" => inflight = 0 /\ pending = 0 /\ SettledItems = idx + BATCH_SIZE

C16_Witness ==
  /\ pc = "batch"
  /\ allAssets = ExampleAssets
  /\ idx = BATCH_SIZE
  /\ inflight = BATCH_SIZE
  /\ SettledItems = BATCH_SIZE

NewReqs == {k \in 1..Len(reqs') : k > Len(reqs)}

\* C17: the requests of a run follow the phases: device/register is sent only
\* by the initialization step, before counting starts; backup/contacts only
\* once the session is open; a backup/media request only after the answer to
\* backup/contacts, and one for a video only when no photo upload is
\* unsettled; backup/complete only when no media upload is unsettled.
C17_RequestsFollowPhases ==
  [][/\ \A k \in NewReqs :
          /\ reqs'[k].kind = "device/register" => pc = "init"
          /\ reqs'[k].kind = "backup/start" => pc = "start"
          /\ reqs'[k].kind = "backup/contacts" => sessionId # NoSession
          /\ reqs'[k].kind = "backup/complete" => pending = 0 /\ inflight = 0
     /\ mediaSent' # mediaSent =>
          /\ \E k \in ReqsOf("backup/contacts") : reqs[k].outcome = "ok"
          /\ mediaSent'["videos"] # mediaSent["videos"] =>
               mtype = "videos" /\ pending + inflight <= batchSize(allAssets, idx)
    ]_vars

\* C18: a pause starts only directly after the progress update of a batch and
\* is followed by the mapping of the next batch; every batch but the first
\* comes directly after a pause; a media phase that ran k >= 1 batches and
\* returned took exactly k - 1 pauses and ended on the progress update of
\* its last batch, with no pause after it.
C18_PauseBetweenBatches ==
  mtype \in MediaTypes =>
    /\ \A k \in EventsOf("pause") :
         /\ k > 1 /\ events[k - 1].ev = "progress"
         /\ k < Len(events) => events[k + 1].ev = "batch"
         /\ k = Len(events) => pc = "pause"
    /\ \A k \in EventsOf("batch") : k > 1 => events[k - 1].ev = "pause"
    /\ (BackupMediaReturned /\ allAssets > 0) =>
         /\ Cardinality(EventsOf("pause")) = Cardinality(EventsOf("batch")) - 1
         /\ Last(events).ev = "progress"

C18_Witness ==
  /\ BackupMediaReturned
  /\ allAssets = ExampleAssets
  /\ Cardinality(EventsOf("batch")) = 3
  /\ Cardinality(EventsOf("pause")) = 2
  /\ Last(events).ev = "progress"

\* C19: a media phase whose enumeration is empty reports exactly one progress
\* update, (0, 0), sends no backup/media request, maps no batch, takes no
\* pause and returns without raising, so the run goes on to its next step.
C19_EmptyEnumeration ==
  (mtype \in MediaTypes /\ allAssets = 0) =>
    /\ MediaProgressSeq = <<mediaProgress(mtype, 0, 0)>>
    /\ mediaSent[mtype] = 0
    /\ SettledItems = 0 /\ pending = 0 /\ inflight = 0
    /\ events = <<>>
    /\ pc \notin {"batch", "pause"}
    /\ raised.phase # mtype

C19_Witness ==
  /\ mtype = "photos"
  /\ allAssets = 0
  /\ stats.totalPhotos > 0
  /\ "photos" \in enumerated
  /\ pc = "complete"
  /\ ProgressOf("photos") # {}
  /\ \A k \in ProgressOf("photos") :
       progressLog[k].processed = 0 /\ progressLog[k].total = 0

\* C20: once the server has rejected the backup/contacts request, the
\* contact phase has failed with the upload error, no contact progress was
\* reported, no second backup/contacts request is sent, and the run ends
\* through the failure path without enumerating or uploading any media.
C20_RejectedContactsStopRun ==
  (\E k \in ReqsOf("backup/contacts") : reqs[k].outcome = "rejected") =>
    /\ raised = [phase |-> "contacts", error |-> "UploadError"]
    /\ ProgressOf("contacts") = {}
    /\ Cardinality(ReqsOf("backup/contacts")) = 1
    /\ pc \in {"inner_catch", "done"}
    /\ pc = "done" => thrown = "UploadError"
    /\ enumerated \subseteq {"contacts"}
    /\ \A c \in MediaTypes : mediaSent[c] = 0
    /\ ProgressOf("photos") = {} /\ ProgressOf("videos") = {}

C20_Witness ==
  /\ pc = "done"
  /\ \E k \in ReqsOf("backup/contacts") : reqs[k].outcome = "rejected"
  /\ stats.totalPhotos > 0
  /\ thrown = "UploadError"
  /\ \E k \in ReqsOf("backup/complete") :
       reqs[k].status = "failed" /\ reqs[k].error = "UploadError"

RegisteredNow ==
  {k \in NewReqs : reqs'[k].kind = "device/register" /\ reqs'[k].outcome = "ok"}

\* C21: a step of a run calls setItem once for each registration the server
\* accepted in it and not otherwise; the persisted token changes only with
\* such a registration and never once a token is persisted; and a token the
\* service holds is not changed by any step of the run.
C21_TokenWrittenOnceAndStable ==
  [][/\ writes' - writes = Cardinality(RegisteredNow)
     /\ persisted' # persisted => RegisteredNow # {}
     /\ persisted # NoToken => persisted' = persisted /\ writes' = writes
     /\ deviceToken # NoToken => deviceToken' = deviceToken
    ]_vars

Registering(c) == callers[c].pc \in {"fetch", "setItem"}

\* C22: two overlapping initialize() calls never both register the device:
\* the dashboard's call and the run's call are never both between sending
\* device/register and the end of setItem, and no call is about to persist
\* a token when one is already persisted.
C22_SingleRegistration ==
  /\ ~(Registering("dashboard") /\ Registering("backup"))
  /\ \A c \in Callers : callers[c].pc = "setItem" => persisted = NoToken

\* C25: in every state of the service, isInitialized implies that
\* deviceToken is not null.
C25_InitializedHoldsToken ==
  isInitialized => deviceToken # NoToken

\* C23: every progress snapshot passed to onProgress has
\* 0 <= processed <= total, the contact snapshot included, and within one
\* media phase processed never decreases from one snapshot to the next.
C23_ProgressWithinTotal ==
  \A k \in 1..Len(progressLog) :
    /\ 0 <= progressLog[k].processed
    /\ progressLog[k].processed <= progressLog[k].total
    /\ \A j \in 1..k :
         (progressLog[j].type = progressLog[k].type /\ progressLog[k].type \in MediaTypes) =>
           progressLog[j].processed <= progressLog[k].processed

AllUploadsFailed ==
  /\ \A c \in MediaTypes : itemsOk[c] = 0
  /\ \E c \in MediaTypes : itemsFailed[c] > 0

\* C24: in a run in which every media upload failed, the failed uploads
\* never fail a media phase, and when no phase failed the finished run has
\* sent backup/complete with status "completed", none with status "failed",
\* and has emitted the Completed status.
C24_AllUploadsFailedRunCompletes ==
  AllUploadsFailed =>
    /\ raised.phase \in MediaTypes => raised.error \in {"PermissionError", "AccessorError"}
    /\ (pc = "done" /\ raised.phase \notin BackupPhases \cup {"start"}) =>
         /\ \E k \in ReqsOf("backup/complete") : reqs[k].status = "completed"
         /\ \A k \in ReqsOf("backup/complete") : reqs[k].status # "failed"
         /\ Last(statusLog) = "Completed"

=============================================================================
